---- MODULE Spec2Model ----
(***************************************************************************)
(* Model of homopolymer-compress-rs.                                       *)
(*                                                                         *)
(*  - src/src/lib.rs : homopolymer_compress and                            *)
(*    homopolymer_compress_with_hodeco_map, the two lazy scans, and the    *)
(*    decompression used by the unit test test_hodeco_mapping.             *)
(*  - src/src/main.rs: the thread scope of main: one input thread, one     *)
(*    output thread, configuration.threads compute threads, two bounded    *)
(*    crossbeam channels.                                                  *)
(*                                                                         *)
(* Option<T> is modelled as a sequence of length at most one: <<>> is      *)
(* None and <<x>> is Some(x).  Items are u8 values.                        *)
(***************************************************************************)
EXTENDS FiniteSets, Integers, Sequences, TLC

\* ------------------------------------------------------------------------
\* Bounds
\* ------------------------------------------------------------------------
NumSymbols == 2      \* size of the alphabet the bounded inputs are drawn from
MaxLen == 6          \* longest sequence handed to the library functions
MaxRecords == 3      \* most records in an input file
MaxFileLen == 3      \* most symbols in an input file, all records together
MaxThreads == 2      \* largest --threads
MaxBufferSize == 1   \* largest --buffer-size

Symbols == 0 .. (NumSymbols - 1)

RECURSIVE SeqsUpTo(_)
SeqsUpTo(n) ==
    IF n = 0 THEN {<<>>}
    ELSE LET shorter == SeqsUpTo(n - 1)
         IN  shorter \cup {Append(s, x) : s \in {t \in shorter : Len(t) = n - 1}, x \in Symbols}

\* b"ACAARRRTGGGTGTJASAAAI" and b"ACARTGTGTJASAI" of the unit tests, as bytes
TestInput ==
    <<65, 67, 65, 65, 82, 82, 82, 84, 71, 71, 71, 84, 71, 84, 74, 65, 83, 65, 65, 65, 73>>
TestExpected ==
    <<65, 67, 65, 82, 84, 71, 84, 71, 84, 74, 65, 83, 65, 73>>

\* ------------------------------------------------------------------------
\* src/src/lib.rs
\* ------------------------------------------------------------------------
Some(x) == <<x>>
None == <<>>

\* Iterator::flatten over an iterator of Option<T>
RECURSIVE flatten(_)
flatten(options) ==
    IF options = <<>> THEN <<>>
    ELSE Head(options) \o flatten(Tail(options))

\* Mutants of hoco_closure.
\* The closure returns None instead of Some(None) on a repeated item.
hoco_closure_stops(previous_item, item) ==
    IF previous_item # None
    THEN IF previous_item[1] = item
         THEN [previous_item |-> previous_item, yield |-> None]
         ELSE [previous_item |-> Some(item), yield |-> Some(Some(item))]
    ELSE [previous_item |-> Some(item), yield |-> Some(Some(item))]

\* previous_item.take() instead of as_mut(): a repeated item empties the slot.
hoco_closure_take(previous_item, item) ==
    IF previous_item # None
    THEN IF previous_item[1] = item
         THEN [previous_item |-> None, yield |-> Some(None)]
         ELSE [previous_item |-> Some(item), yield |-> Some(Some(item))]
    ELSE [previous_item |-> Some(item), yield |-> Some(Some(item))]

\* Line 20 missing: the slot keeps the first item.
hoco_closure_keeps_first(previous_item, item) ==
    IF previous_item # None
    THEN IF previous_item[1] = item
         THEN [previous_item |-> previous_item, yield |-> Some(None)]
         ELSE [previous_item |-> previous_item, yield |-> Some(Some(item))]
    ELSE [previous_item |-> Some(item), yield |-> Some(Some(item))]

\* != instead of == in line 17.
hoco_closure_inverted(previous_item, item) ==
    IF previous_item # None
    THEN IF previous_item[1] # item
         THEN [previous_item |-> previous_item, yield |-> Some(None)]
         ELSE [previous_item |-> Some(item), yield |-> Some(Some(item))]
    ELSE [previous_item |-> Some(item), yield |-> Some(Some(item))]

\* The closure passed to scan in homopolymer_compress.  It returns the new
\* scan state and the value handed to the scan: Some(None) when the item
\* repeats the previous one, Some(Some(item)) otherwise.
hoco_closure(previous_item, item) ==
    IF previous_item # None
    THEN IF previous_item[1] = item
         THEN [previous_item |-> previous_item, yield |-> Some(None)]
         ELSE [previous_item |-> Some(item), yield |-> Some(Some(item))]
    ELSE [previous_item |-> Some(item), yield |-> Some(Some(item))]

\* Iterator::scan with the closure above: stops when the closure returns None.
RECURSIVE hoco_scan(_, _)
hoco_scan(items, previous_item) ==
    IF items = <<>> THEN <<>>
    ELSE LET r == hoco_closure(previous_item, Head(items))
         IN  IF r.yield = None THEN <<>>
             ELSE <<r.yield[1]>> \o hoco_scan(Tail(items), r.previous_item)

homopolymer_compress(items) == flatten(hoco_scan(items, None))

\* Mutant of enumerate: indices from 1.
enumerate_from_one(items) == [i \in 1 .. Len(items) |-> <<i, items[i]>>]

\* Iterator::enumerate: pairs (index, item), index from 0
enumerate(items) == [i \in 1 .. Len(items) |-> <<i - 1, items[i]>>]

\* The closure passed to scan in homopolymer_compress_with_hodeco_map.
hodeco_closure(previous_item, indexed) ==
    LET index == indexed[1]
        item == indexed[2]
    IN  IF previous_item # None
        THEN IF previous_item[1] = item
             THEN [previous_item |-> previous_item, yield |-> Some(None)]
             ELSE [previous_item |-> Some(item), yield |-> Some(Some(<<item, index>>))]
        ELSE [previous_item |-> Some(item), yield |-> Some(Some(<<item, index>>))]

RECURSIVE hodeco_scan(_, _)
hodeco_scan(indexed_items, previous_item) ==
    IF indexed_items = <<>> THEN <<>>
    ELSE LET r == hodeco_closure(previous_item, Head(indexed_items))
         IN  IF r.yield = None THEN <<>>
             ELSE <<r.yield[1]>> \o hodeco_scan(Tail(indexed_items), r.previous_item)

homopolymer_compress_with_hodeco_map(items) ==
    flatten(hodeco_scan(enumerate(items), None))

\* Iterator::unzip into (Vec<Item>, Vec<usize>)
unzip(pairs) ==
    <<[i \in 1 .. Len(pairs) |-> pairs[i][1]], [i \in 1 .. Len(pairs) |-> pairs[i][2]]>>

\* iter::repeat(item).take(count)
repeat_take(item, count) == [i \in 1 .. count |-> item]

\* actual.into_iter().zip(hodeco_mapping.windows(2)).flat_map(repeat.take(count[1] - count[0]))
\* A usize subtraction that would underflow panics: modelled as the value Panic.
Panic == <<-1>>
RECURSIVE decompress_from(_, _, _)
decompress_from(actual, hodeco_mapping, i) ==
    IF i > Len(actual) \/ i + 1 > Len(hodeco_mapping) THEN <<>>
    ELSE LET count == hodeco_mapping[i + 1] - hodeco_mapping[i]
             rest == decompress_from(actual, hodeco_mapping, i + 1)
         IN  IF count < 0 \/ rest = Panic THEN Panic
             ELSE repeat_take(actual[i], count) \o rest

decompress(actual, hodeco_mapping) == decompress_from(actual, hodeco_mapping, 1)

\* ------------------------------------------------------------------------
\* State
\* ------------------------------------------------------------------------
VARIABLES
    lib,            \* the library functions applied to one input (the unit tests of lib.rs)
    configuration,  \* the parsed command line
    file,           \* the records of the input file, in source order
    main,           \* the closure handed to thread::scope and the scope's join
    input_thread,   \* the reader
    compute,        \* the compute threads, by thread_id
    output_thread,  \* the writer
    input_channel,  \* records in the bounded channel reader -> compute threads
    output_channel, \* records in the bounded channel compute threads -> writer
    written,        \* what the fasta writer has written, in order
    map_written,    \* what the hodeco mapping encoder has written, in order
    exit            \* "running", "success" (exit code 0) or "failure" (panic in main)

pipeline_vars ==
    <<configuration, file, main, input_thread, compute, output_thread,
      input_channel, output_channel, written, map_written, exit>>
vars == <<lib, pipeline_vars>>

\* ------------------------------------------------------------------------
\* The library functions applied to one bounded input (src/src/lib.rs tests)
\* ------------------------------------------------------------------------
LibIdle ==
    [input |-> <<>>, actual |-> None, again |-> None,
     with_map |-> None, hodeco |-> None]

\* let actual = Vec::from_iter(homopolymer_compress(input.iter().cloned()));
test_homopolymer_compression ==
    /\ lib.actual = None
    /\ lib' = [lib EXCEPT !.actual = Some(homopolymer_compress(lib.input))]
    /\ UNCHANGED pipeline_vars

\* homopolymer_compress applied to its own output
compress_again ==
    /\ lib.actual # None
    /\ lib.again = None
    /\ lib' = [lib EXCEPT !.again = Some(homopolymer_compress(lib.actual[1]))]
    /\ UNCHANGED pipeline_vars

\* Mutants of compress_with_map.
\* The push of the input length is missing.
compress_with_map_no_push(seq) ==
    LET parts == unzip(homopolymer_compress_with_hodeco_map(seq))
    IN  [actual |-> parts[1], hodeco_mapping |-> parts[2]]

\* The input length is pushed only for a record that is not empty.
compress_with_map_push_nonempty(seq) ==
    LET parts == unzip(homopolymer_compress_with_hodeco_map(seq))
    IN  [actual |-> parts[1],
         hodeco_mapping |-> IF seq = <<>> THEN parts[2] ELSE Append(parts[2], Len(seq))]

\* The (hoco_sequence, hodeco_mapping) a caller builds: unzip the pairs, then
\* push the input length onto the index list.
compress_with_map(seq) ==
    LET parts == unzip(homopolymer_compress_with_hodeco_map(seq))
    IN  [actual |-> parts[1], hodeco_mapping |-> Append(parts[2], Len(seq))]

\* let (actual, mut hodeco_mapping) = homopolymer_compress_with_hodeco_map(..).unzip();
\* hodeco_mapping.push(input.len());
test_hodeco_mapping ==
    /\ lib.with_map = None
    /\ lib' = [lib EXCEPT !.with_map = Some(compress_with_map(lib.input))]
    /\ UNCHANGED pipeline_vars

\* let hodeco = actual.zip(hodeco_mapping.windows(2)).flat_map(..).collect();
test_hodeco_decompress ==
    /\ lib.with_map # None
    /\ lib.hodeco = None
    /\ lib' = [lib EXCEPT !.hodeco =
                  Some(decompress(lib.with_map[1].actual, lib.with_map[1].hodeco_mapping))]
    /\ UNCHANGED pipeline_vars

PipelineIdle ==
    /\ configuration = [output |-> FALSE, hodeco_map_output |-> FALSE,
                        threads |-> 0, buffer_size |-> 0]
    /\ file = <<>>
    /\ main = [pc |-> "exit", thread_id |-> 0, panicked |-> FALSE]
    /\ input_thread = [pc |-> "unspawned", pos |-> 0, parse_error |-> 0]
    /\ compute = [t \in 0 .. (MaxThreads - 1) |-> [pc |-> "unspawned", item |-> None]]
    /\ output_thread = [pc |-> "unspawned", item |-> None]
    /\ input_channel = <<>>
    /\ output_channel = <<>>
    /\ written = <<>>
    /\ map_written = <<>>
    /\ exit = "success"

InitLib ==
    /\ lib \in {[LibIdle EXCEPT !.input = s] : s \in SeqsUpTo(MaxLen) \cup {TestInput}}
    /\ PipelineIdle

NextLib ==
    \/ test_homopolymer_compression
    \/ compress_again
    \/ test_hodeco_mapping
    \/ test_hodeco_decompress

SpecLib == InitLib /\ [][NextLib]_vars

\* ------------------------------------------------------------------------
\* src/src/main.rs
\* ------------------------------------------------------------------------
\* input.extension(); "" : the path has no extension
Extensions == {"fasta", "fa", "txt", ""}

\* struct Configuration.  The input path is read twice: its extension in
\* main_check_extension and its file in Files.
Configurations ==
    [output : BOOLEAN, hodeco_map_output : BOOLEAN,
     threads : 0 .. MaxThreads, buffer_size : 0 .. MaxBufferSize]

\* All lists of n sequences with at most budget symbols in total
RECURSIVE SeqLists(_, _)
SeqLists(n, budget) ==
    IF n = 0 THEN {<<>>}
    ELSE UNION {{<<s>> \o rest : rest \in SeqLists(n - 1, budget - Len(s))}
                   : s \in SeqsUpTo(budget)}

\* fasta records: the id is the record's position in the file, so ids are unique
Files ==
    UNION {{[i \in 1 .. n |-> [id |-> i, seq |-> l[i]]] : l \in SeqLists(n, MaxFileLen)}
              : n \in 0 .. MaxRecords}

ThreadIds == 0 .. (MaxThreads - 1)

Alive(thread) == thread.pc \notin {"unspawned", "done", "panicked"}

\* Mutant of input_senders_alive: try_recv instead of recv, an empty channel
\* ends the compute thread's loop.
input_senders_alive_try_recv == FALSE

\* input_sender is moved into the input thread and dropped when it ends
input_senders_alive == Alive(input_thread)
\* Mutant of input_receivers_alive: the original input_receiver outlives the
\* scope closure, so the channel never loses its last receiver.
input_receivers_alive_never_dropped == TRUE

\* input_receiver is held by the scope closure from line 64 until the closure
\* ends; every compute thread holds a clone
input_receivers_alive ==
    \/ main.pc \in {"spawn_output", "spawn_compute"}
    \/ \E t \in ThreadIds : Alive(compute[t])
\* Mutant of output_senders_alive: the original output_sender of the scope
\* closure is not counted.
output_senders_alive_clones_only == \E t \in ThreadIds : Alive(compute[t])

\* output_sender is held by the scope closure from line 79 until the closure
\* ends; every compute thread holds a clone
output_senders_alive ==
    \/ main.pc = "spawn_compute"
    \/ \E t \in ThreadIds : Alive(compute[t])
\* output_receiver is moved into the output thread and dropped when it ends
output_receivers_alive == Alive(output_thread)

Init ==
    /\ lib = LibIdle
    /\ configuration \in Configurations
    /\ file \in Files
    /\ main = [pc |-> "check_extension", thread_id |-> 0, panicked |-> FALSE]
    /\ input_thread = [pc |-> "unspawned", pos |-> 0, parse_error |-> 0]
    /\ compute = [t \in ThreadIds |-> [pc |-> "unspawned", item |-> None]]
    /\ output_thread = [pc |-> "unspawned", item |-> None]
    /\ input_channel = <<>>
    /\ output_channel = <<>>
    /\ written = <<>>
    /\ map_written = <<>>
    /\ exit = "running"

\* The scope closure panics: its locals (input_receiver, output_sender) are
\* dropped and the scope goes on to join the threads spawned so far.
main_panic == [main EXCEPT !.pc = "join", !.panicked = TRUE]

\* lines 52-59: the extension check, before the scope is entered
main_check_extension ==
    /\ main.pc = "check_extension"
    /\ \E extension \in Extensions :
          IF ~(extension # "fasta" /\ extension # "fa")
          THEN /\ main' = [main EXCEPT !.pc = "open_input"]
               /\ exit' = exit
          ELSE /\ main' = [main EXCEPT !.pc = "exit", !.panicked = TRUE]
               /\ exit' = "failure"
    /\ UNCHANGED <<lib, configuration, file, input_thread, compute, output_thread,
                   input_channel, output_channel, written, map_written>>

\* lines 62-63: File::open(&input)
main_open_input ==
    /\ main.pc = "open_input"
    /\ \E ok \in BOOLEAN :
          main' = IF ok THEN [main EXCEPT !.pc = "spawn_input"] ELSE main_panic
    /\ UNCHANGED <<lib, configuration, file, input_thread, compute, output_thread,
                   input_channel, output_channel, written, map_written, exit>>

\* lines 64-77: create the input channel and spawn the input thread
main_spawn_input ==
    /\ main.pc = "spawn_input"
    /\ \E ok \in BOOLEAN :
          IF ok
          THEN /\ main' = [main EXCEPT !.pc = "spawn_output"]
               /\ input_thread' = [input_thread EXCEPT !.pc = "next"]
          ELSE /\ main' = main_panic
               /\ input_thread' = input_thread
    /\ UNCHANGED <<lib, configuration, file, compute, output_thread,
                   input_channel, output_channel, written, map_written, exit>>

\* lines 79-133: create the output channel, (create the output file,) spawn the
\* output thread
main_spawn_output ==
    /\ main.pc = "spawn_output"
    /\ \E ok \in BOOLEAN :
          IF ok
          THEN /\ main' = [main EXCEPT !.pc = "spawn_compute"]
               /\ output_thread' = [output_thread EXCEPT !.pc = "start"]
          ELSE /\ main' = main_panic
               /\ output_thread' = output_thread
    /\ UNCHANGED <<lib, configuration, file, input_thread, compute,
                   input_channel, output_channel, written, map_written, exit>>

\* Mutant of main_spawn_compute: 0..=configuration.threads, one compute thread
\* too many.
main_spawn_compute_inclusive ==
    /\ main.pc = "spawn_compute"
    /\ IF main.thread_id <= configuration.threads /\ main.thread_id < MaxThreads
       THEN \E ok \in BOOLEAN :
               IF ok
               THEN /\ main' = [main EXCEPT !.thread_id = @ + 1]
                    /\ compute' = [compute EXCEPT ![main.thread_id].pc = "recv"]
               ELSE /\ main' = main_panic
                    /\ compute' = compute
       ELSE /\ main' = [main EXCEPT !.pc = "join"]
            /\ compute' = compute
    /\ UNCHANGED <<lib, configuration, file, input_thread, output_thread,
                   input_channel, output_channel, written, map_written, exit>>

\* lines 135-177: for thread_id in 0..configuration.threads spawn a compute
\* thread; after the loop the closure returns and drops its channel handles
main_spawn_compute ==
    /\ main.pc = "spawn_compute"
    /\ IF main.thread_id < configuration.threads
       THEN \E ok \in BOOLEAN :
               IF ok
               THEN /\ main' = [main EXCEPT !.thread_id = @ + 1]
                    /\ compute' = [compute EXCEPT ![main.thread_id].pc = "recv"]
               ELSE /\ main' = main_panic
                    /\ compute' = compute
       ELSE /\ main' = [main EXCEPT !.pc = "join"]
            /\ compute' = compute
    /\ UNCHANGED <<lib, configuration, file, input_thread, output_thread,
                   input_channel, output_channel, written, map_written, exit>>

\* Mutant of scope_result: the Err of the scope (a panicked thread) is ignored.
scope_result_closure_only(closure_panicked, threads) ==
    IF closure_panicked THEN "failure" ELSE "success"

\* The result of thread::scope(..) followed by line 178: the scope reports an
\* error when a spawned thread panicked, and re-raises a panic of the closure.
scope_result(closure_panicked, threads) ==
    IF closure_panicked \/ \E i \in 1 .. Len(threads) : threads[i].pc = "panicked"
    THEN "failure"
    ELSE "success"

all_threads == <<input_thread, output_thread>> \o [i \in 1 .. MaxThreads |-> compute[i - 1]]

\* end of thread::scope: every spawned thread is joined, then line 178
scope_join ==
    /\ main.pc = "join"
    /\ \A i \in 1 .. Len(all_threads) : ~Alive(all_threads[i])
    /\ main' = [main EXCEPT !.pc = "exit"]
    /\ exit' = scope_result(main.panicked, all_threads)
    /\ UNCHANGED <<lib, configuration, file, input_thread, compute, output_thread,
                   input_channel, output_channel, written, map_written>>

\* Mutant of input_thread_next: a record that fails to parse is skipped.
input_thread_next_skips ==
    /\ input_thread.pc = "next"
    /\ IF input_thread.pos = Len(file)
       THEN input_thread' = [input_thread EXCEPT !.pc = "done"]
       ELSE \E ok \in BOOLEAN :
               input_thread' = IF ok
                               THEN [input_thread EXCEPT !.pc = "send", !.pos = @ + 1]
                               ELSE [input_thread EXCEPT !.pos = @ + 1,
                                                         !.parse_error = input_thread.pos + 1]
    /\ UNCHANGED <<lib, configuration, file, main, compute, output_thread,
                   input_channel, output_channel, written, map_written, exit>>

\* lines 69-71: the next item of fasta::Reader::records(): end of file, a
\* record, or an error (the unwrap_or_else panics).  pos counts the records
\* parsed; parse_error is the position of the record whose parsing gave the
\* error, 0 when there was none.
input_thread_next ==
    /\ input_thread.pc = "next"
    /\ IF input_thread.pos = Len(file)
       THEN input_thread' = [input_thread EXCEPT !.pc = "done"]
       ELSE \E ok \in BOOLEAN :
               input_thread' = IF ok
                               THEN [input_thread EXCEPT !.pc = "send", !.pos = @ + 1]
                               ELSE [input_thread EXCEPT !.pc = "panicked",
                                                         !.parse_error = input_thread.pos + 1]
    /\ UNCHANGED <<lib, configuration, file, main, compute, output_thread,
                   input_channel, output_channel, written, map_written, exit>>

\* Mutant of input_thread_send: channel::unbounded, a send never waits for room.
input_thread_send_unbounded ==
    /\ input_thread.pc = "send"
    /\ IF ~input_receivers_alive
       THEN /\ input_thread' = [input_thread EXCEPT !.pc = "panicked"]
            /\ input_channel' = input_channel
       ELSE /\ input_thread' = [input_thread EXCEPT !.pc = "next"]
            /\ input_channel' = Append(input_channel, file[input_thread.pos])
    /\ UNCHANGED <<lib, configuration, file, main, compute, output_thread,
                   output_channel, written, map_written, exit>>

\* lines 72-74: input_sender.send(record) on a channel with a buffer; Err when
\* every receiver is gone, blocked while the buffer is full
input_thread_send ==
    /\ input_thread.pc = "send"
    /\ IF ~input_receivers_alive
       THEN /\ input_thread' = [input_thread EXCEPT !.pc = "panicked"]
            /\ input_channel' = input_channel
       ELSE /\ Len(input_channel) < configuration.buffer_size
            /\ input_thread' = [input_thread EXCEPT !.pc = "next"]
            /\ input_channel' = Append(input_channel, file[input_thread.pos])
    /\ UNCHANGED <<lib, configuration, file, main, compute, output_thread,
                   output_channel, written, map_written, exit>>

\* Mutant of compute_item: the compute threads test configuration.output
\* instead of hodeco_map_output.
compute_item_tests_output(record) ==
    IF configuration.output
    THEN LET r == compress_with_map(record.seq)
         IN  [id |-> record.id, sequence |-> r.actual,
              hodeco_mapping |-> Some(r.hodeco_mapping)]
    ELSE [id |-> record.id, sequence |-> homopolymer_compress(record.seq),
          hodeco_mapping |-> None]

\* lines 145-154 and 161-168: the tuple a compute thread builds from a record
compute_item(record) ==
    IF configuration.hodeco_map_output
    THEN LET r == compress_with_map(record.seq)
         IN  [id |-> record.id, sequence |-> r.actual,
              hodeco_mapping |-> Some(r.hodeco_mapping)]
    ELSE [id |-> record.id, sequence |-> homopolymer_compress(record.seq),
          hodeco_mapping |-> None]

\* Mutant of compute_recv: the record is read but left in the channel.
compute_recv_peek(t) ==
    /\ compute[t].pc = "recv"
    /\ IF input_channel # <<>>
       THEN /\ compute' = [compute EXCEPT ![t] =
                              [pc |-> "send", item |-> Some(compute_item(Head(input_channel)))]]
            /\ input_channel' = input_channel
       ELSE /\ ~input_senders_alive
            /\ compute' = [compute EXCEPT ![t].pc = "done"]
            /\ input_channel' = input_channel
    /\ UNCHANGED <<lib, configuration, file, main, input_thread, output_thread,
                   output_channel, written, map_written, exit>>

\* lines 144 and 160: input_receiver.recv() on a channel with a buffer,
\* followed by the compression; Err ends the loop and the thread
compute_recv(t) ==
    /\ compute[t].pc = "recv"
    /\ IF input_channel # <<>>
       THEN /\ compute' = [compute EXCEPT ![t] =
                              [pc |-> "send", item |-> Some(compute_item(Head(input_channel)))]]
            /\ input_channel' = Tail(input_channel)
       ELSE /\ ~input_senders_alive
            /\ compute' = [compute EXCEPT ![t].pc = "done"]
            /\ input_channel' = input_channel
    /\ UNCHANGED <<lib, configuration, file, main, input_thread, output_thread,
                   output_channel, written, map_written, exit>>

\* buffer_size = 0: a send on the input channel completes only by handing the
\* record to a compute thread that is in recv
input_rendezvous(t) ==
    /\ configuration.buffer_size = 0
    /\ input_thread.pc = "send"
    /\ compute[t].pc = "recv"
    /\ input_thread' = [input_thread EXCEPT !.pc = "next"]
    /\ compute' = [compute EXCEPT ![t] =
                      [pc |-> "send", item |-> Some(compute_item(file[input_thread.pos]))]]
    /\ UNCHANGED <<lib, configuration, file, main, output_thread, input_channel,
                   output_channel, written, map_written, exit>>

\* lines 149-157 and 163-171: output_sender.send(..)
compute_send(t) ==
    /\ compute[t].pc = "send"
    /\ IF ~output_receivers_alive
       THEN /\ compute' = [compute EXCEPT ![t].pc = "panicked"]
            /\ output_channel' = output_channel
       ELSE /\ Len(output_channel) < configuration.buffer_size
            /\ compute' = [compute EXCEPT ![t] = [pc |-> "recv", item |-> None]]
            /\ output_channel' = Append(output_channel, compute[t].item[1])
    /\ UNCHANGED <<lib, configuration, file, main, input_thread, output_thread,
                   input_channel, written, map_written, exit>>

\* buffer_size = 0: a send on the output channel completes only by handing the
\* tuple to the output thread in recv
output_rendezvous(t) ==
    /\ configuration.buffer_size = 0
    /\ compute[t].pc = "send"
    /\ output_thread.pc = "recv"
    /\ compute' = [compute EXCEPT ![t] = [pc |-> "recv", item |-> None]]
    /\ output_thread' = [pc |-> "write", item |-> compute[t].item]
    /\ UNCHANGED <<lib, configuration, file, main, input_thread, input_channel,
                   output_channel, written, map_written, exit>>

\* lines 91-96 and 119: the writers are set up; creating the hodeco mapping
\* file can fail
output_thread_start ==
    /\ output_thread.pc = "start"
    /\ IF configuration.output /\ configuration.hodeco_map_output
       THEN \E ok \in BOOLEAN :
               output_thread' = [output_thread EXCEPT !.pc = IF ok THEN "recv" ELSE "panicked"]
       ELSE output_thread' = [output_thread EXCEPT !.pc = "recv"]
    /\ UNCHANGED <<lib, configuration, file, main, input_thread, compute,
                   input_channel, output_channel, written, map_written, exit>>

\* lines 97-98 and 120-121: output_receiver.recv(); Err ends the loop
output_thread_recv ==
    /\ output_thread.pc = "recv"
    /\ IF output_channel # <<>>
       THEN /\ output_thread' = [pc |-> "write", item |-> Some(Head(output_channel))]
            /\ output_channel' = Tail(output_channel)
       ELSE /\ ~output_senders_alive
            /\ output_thread' = [output_thread EXCEPT !.pc = "done"]
            /\ output_channel' = output_channel
    /\ UNCHANGED <<lib, configuration, file, main, input_thread, compute,
                   input_channel, written, map_written, exit>>

fasta_entry(item) == [id |-> item.id, sequence |-> item.sequence]
map_entry(item) == [id |-> item.id, hodeco_mapping |-> item.hodeco_mapping[1]]

\* lines 100-110: the loop body of the output thread that writes to a file
write_to_file(item) ==
    \/ \* writer.write fails
       /\ output_thread' = [output_thread EXCEPT !.pc = "panicked"]
       /\ UNCHANGED <<written, map_written>>
    \/ \* no mapping writer
       /\ ~configuration.hodeco_map_output
       /\ written' = Append(written, fasta_entry(item))
       /\ output_thread' = [pc |-> "recv", item |-> None]
       /\ UNCHANGED map_written
    \/ \* mapping writer, but no mapping: unreachable!()
       /\ configuration.hodeco_map_output
       /\ item.hodeco_mapping = None
       /\ written' = Append(written, fasta_entry(item))
       /\ output_thread' = [output_thread EXCEPT !.pc = "panicked"]
       /\ UNCHANGED map_written
    \/ \* encode fails
       /\ configuration.hodeco_map_output
       /\ item.hodeco_mapping # None
       /\ written' = Append(written, fasta_entry(item))
       /\ output_thread' = [output_thread EXCEPT !.pc = "panicked"]
       /\ UNCHANGED map_written
    \/ \* both written
       /\ configuration.hodeco_map_output
       /\ item.hodeco_mapping # None
       /\ written' = Append(written, fasta_entry(item))
       /\ map_written' = Append(map_written, map_entry(item))
       /\ output_thread' = [pc |-> "recv", item |-> None]

\* lines 123-129: the loop body of the output thread that writes to stdout
write_to_stdout(item) ==
    \/ \* the assert fails
       /\ item.hodeco_mapping # None
       /\ output_thread' = [output_thread EXCEPT !.pc = "panicked"]
       /\ UNCHANGED <<written, map_written>>
    \/ \* writer.write fails
       /\ item.hodeco_mapping = None
       /\ output_thread' = [output_thread EXCEPT !.pc = "panicked"]
       /\ UNCHANGED <<written, map_written>>
    \/ /\ item.hodeco_mapping = None
       /\ written' = Append(written, fasta_entry(item))
       /\ output_thread' = [pc |-> "recv", item |-> None]
       /\ UNCHANGED map_written

output_thread_write ==
    /\ output_thread.pc = "write"
    /\ IF configuration.output
       THEN write_to_file(output_thread.item[1])
       ELSE write_to_stdout(output_thread.item[1])
    /\ UNCHANGED <<lib, configuration, file, main, input_thread, compute,
                   input_channel, output_channel, exit>>

Next ==
    \/ main_check_extension
    \/ main_open_input
    \/ main_spawn_input
    \/ main_spawn_output
    \/ main_spawn_compute
    \/ scope_join
    \/ input_thread_next
    \/ input_thread_send
    \/ \E t \in ThreadIds : compute_recv(t)
    \/ \E t \in ThreadIds : input_rendezvous(t)
    \/ \E t \in ThreadIds : compute_send(t)
    \/ \E t \in ThreadIds : output_rendezvous(t)
    \/ output_thread_start
    \/ output_thread_recv
    \/ output_thread_write

Spec == Init /\ [][Next]_vars

\* ------------------------------------------------------------------------
\* Properties of the library functions (checked under SpecLib)
\* ------------------------------------------------------------------------
NoAdjacentEqual(seq) == \A i \in 1 .. (Len(seq) - 1) : seq[i] # seq[i + 1]

\* The positions (from 1) at which a maximal run of equal adjacent items starts
RunStarts(seq) == {i \in 1 .. Len(seq) : i = 1 \/ seq[i - 1] # seq[i]}

\* The k-th smallest element of a finite set of numbers
Nth(set, k) == CHOOSE i \in set : Cardinality({j \in set : j <= i}) = k

\* The first item of each maximal run, in run order
FirstOfRuns(seq) ==
    [k \in 1 .. Cardinality(RunStarts(seq)) |-> seq[Nth(RunStarts(seq), k)]]

\* The 0-based start position of each maximal run, in run order
RunStartIndices(seq) ==
    [k \in 1 .. Cardinality(RunStarts(seq)) |-> Nth(RunStarts(seq), k) - 1]

\* C2: round trip.  Repeating the i-th emitted item map[i+1] - map[i] times,
\* where map is the start indices of homopolymer_compress_with_hodeco_map(S)
\* followed by len(S), and concatenating, reproduces S.
C2_RoundTrip ==
    lib.hodeco # None => lib.hodeco[1] = lib.input

C2_Witness ==
    /\ lib.input = TestInput
    /\ lib.with_map # None
    /\ lib.with_map[1].hodeco_mapping =
           <<0, 1, 2, 4, 7, 8, 11, 12, 13, 14, 15, 16, 17, 20, 21>>
    /\ lib.hodeco = Some(TestInput)

\* C3: homopolymer_compress(S) is the first item of each maximal run of equal
\* adjacent items of S, in run order; the input of the unit test gives the
\* expected output of the unit test.
C3_FirstOfEachRun ==
    lib.actual # None =>
        /\ lib.actual[1] = FirstOfRuns(lib.input)
        /\ lib.input = TestInput => lib.actual[1] = TestExpected

C3_Witness ==
    /\ lib.input = TestInput
    /\ lib.actual = Some(TestExpected)

\* C4: idempotence.  Compressing the output of homopolymer_compress again
\* gives the same output.
C4_Idempotent ==
    lib.again # None => lib.again[1] = lib.actual[1]

C4_Witness ==
    /\ lib.again # None
    /\ Len(lib.again[1]) >= 2
    /\ Len(lib.actual[1]) < Len(lib.input)

\* C6: length bound.  The output of homopolymer_compress is no longer than
\* its input, and has the same length exactly when the input has no two equal
\* adjacent items.
C6_LengthBound ==
    lib.actual # None =>
        /\ Len(lib.actual[1]) <= Len(lib.input)
        /\ Len(lib.actual[1]) = Len(lib.input) <=> NoAdjacentEqual(lib.input)

C6_Witness ==
    /\ lib.actual # None
    /\ Len(lib.input) >= 3
    /\ Len(lib.actual[1]) = Len(lib.input)

\* C7: homopolymer_compress_with_hodeco_map emits the items that
\* homopolymer_compress emits, each paired with the 0-based position in the
\* input of the first item of its run.
C7_SameScanWithIndices ==
    lib.with_map # None =>
        LET indices == SubSeq(lib.with_map[1].hodeco_mapping, 1,
                              Len(lib.with_map[1].hodeco_mapping) - 1)
        IN  /\ lib.with_map[1].actual = homopolymer_compress(lib.input)
            /\ indices = RunStartIndices(lib.input)

C7_Witness ==
    /\ lib.input = TestInput
    /\ lib.with_map # None
    /\ lib.with_map[1].actual = TestExpected
    /\ lib.with_map[1].hodeco_mapping[4] = 4

\* ------------------------------------------------------------------------
\* Properties of the pipeline (checked under Spec)
\* ------------------------------------------------------------------------
SpawnedThreads == {input_thread, output_thread} \cup {compute[t] : t \in ThreadIds}

\* A stage or the set-up of the pipeline has failed
SomeStageFailed ==
    \/ main.panicked
    \/ \E thread \in SpawnedThreads : thread.pc = "panicked"

\* The tuples that compute threads have sent or are sending to the writer
SentToWriter ==
    {compute[t].item[1] : t \in {u \in ThreadIds : compute[u].pc \in {"send", "panicked"}}}
        \cup {output_channel[i] : i \in 1 .. Len(output_channel)}
        \cup {output_thread.item[1] : x \in {y \in {1} : output_thread.item # None}}

\* C1: pipeline conservation.  With at least one compute thread and no failed
\* stage, when the output thread has ended, every record of the input file
\* has been written exactly once, in some order, and each written sequence is
\* homopolymer_compress of the sequence of the input record with that id.
C1_Conservation ==
    (configuration.threads >= 1 /\ ~SomeStageFailed /\ output_thread.pc = "done") =>
        /\ Len(written) = Len(file)
        /\ \A i \in 1 .. Len(file) :
              /\ Cardinality({k \in 1 .. Len(written) : written[k].id = file[i].id}) = 1
              /\ \E k \in 1 .. Len(written) :
                    /\ written[k].id = file[i].id
                    /\ written[k].sequence = homopolymer_compress(file[i].seq)

\* two records, written in the opposite order, the second one with a run
C1_Witness ==
    /\ configuration.threads >= 1
    /\ ~SomeStageFailed
    /\ output_thread.pc = "done"
    /\ Len(file) = 2
    /\ Len(file[2].seq) = 2
    /\ Len(written) = 2
    /\ written[1].id = 2
    /\ Len(written[1].sequence) = 1
    /\ written[2].id = 1

\* For every bounded sequence, no two adjacent items of its compression are equal
CompressionHasNoRun ==
    \A seq \in SeqsUpTo(MaxLen) \cup {TestInput} : NoAdjacentEqual(homopolymer_compress(seq))

\* C5: run invariant.  No two adjacent items of homopolymer_compress(S) are
\* equal, and the same holds for the sequence of every tuple a compute thread
\* sends to the writer.
C5_RunInvariant ==
    /\ CompressionHasNoRun
    /\ \A item \in SentToWriter : NoAdjacentEqual(item.sequence)
    /\ \A k \in 1 .. Len(written) : NoAdjacentEqual(written[k].sequence)

C5_Witness ==
    \E i \in 1 .. Len(output_channel) :
        /\ Len(output_channel[i].sequence) = 2
        /\ Len(file[output_channel[i].id].seq) = 3

\* C8: well-formed hodeco mapping.  The mapping a compute thread sends with a
\* record S has one entry more than the compressed sequence, starts the i-th
\* run at mapping[i] and ends it before mapping[i+1] (so mapping[i+1] -
\* mapping[i] is the length of the i-th run), is strictly increasing and ends
\* with len(S); for an empty S it is [0].
WellFormedMapping(mapping, compressed, seq) ==
    /\ Len(mapping) = Len(compressed) + 1
    /\ mapping[Len(mapping)] = Len(seq)
    /\ compressed # <<>> => mapping[1] = 0
    /\ \A i \in 1 .. Len(compressed) :
          /\ mapping[i] < mapping[i + 1]
          /\ \A j \in (mapping[i] + 1) .. mapping[i + 1] : seq[j] = compressed[i]
          /\ i < Len(compressed) => seq[mapping[i + 1] + 1] # compressed[i]
    /\ seq = <<>> => mapping = <<0>>

C8_WellFormedMapping ==
    \A item \in SentToWriter :
        configuration.hodeco_map_output =>
            /\ item.hodeco_mapping # None
            /\ WellFormedMapping(item.hodeco_mapping[1], item.sequence, file[item.id].seq)

C8_Witness ==
    /\ \E item \in SentToWriter : item.hodeco_mapping = Some(<<0>>)
    /\ \E item \in SentToWriter :
          /\ item.hodeco_mapping # None
          /\ Len(item.hodeco_mapping[1]) = 3
          /\ item.hodeco_mapping[1][2] = 2

C10_FailureIsFatal ==
    /\ exit = "success" => ~SomeStageFailed
    /\ (main.pc = "exit" /\ SomeStageFailed) => exit = "failure"

\* a compute thread failed to send after the writer failed, the closure did not
C10_Witness ==
    /\ main.pc = "exit"
    /\ ~main.panicked
    /\ exit = "failure"
    /\ \E t \in ThreadIds : compute[t].pc = "panicked"

\* ------------------------------------------------------------------------
\* Scheduling: every thread that can take a step eventually takes one, and a
\* blocked channel operation completes once it can.
\* ------------------------------------------------------------------------
Fairness ==
    /\ WF_vars(main_check_extension)
    /\ WF_vars(main_open_input)
    /\ WF_vars(main_spawn_input)
    /\ WF_vars(main_spawn_output)
    /\ WF_vars(main_spawn_compute)
    /\ WF_vars(scope_join)
    /\ WF_vars(input_thread_next)
    /\ WF_vars(input_thread_send)
    /\ \A t \in ThreadIds : WF_vars(compute_recv(t))
    /\ \A t \in ThreadIds : WF_vars(input_rendezvous(t))
    /\ \A t \in ThreadIds : WF_vars(compute_send(t))
    /\ \A t \in ThreadIds : WF_vars(output_rendezvous(t))
    /\ WF_vars(output_thread_start)
    /\ WF_vars(output_thread_recv)
    /\ WF_vars(output_thread_write)

\* Whether a thread can take a step does not depend on the symbols of the
\* records: the fair behaviours are explored for the files whose records all
\* hold one symbol.
InitFair ==
    /\ Init
    /\ \A i \in 1 .. Len(file) : file[i].seq = <<0>>

SpecFair == InitFair /\ [][Next]_vars /\ Fairness

NoThreadAlive == \A thread \in SpawnedThreads : ~Alive(thread)

\* C11: failure propagation without deadlock.  Once a stage or the set-up has
\* failed, every thread eventually ends: none stays blocked in send or recv.
C11_FailureEndsEveryThread ==
    SomeStageFailed ~> NoThreadAlive

\* the writer failed while a compute thread was alive and the reader still
\* had a record to send
C11_Witness ==
    /\ output_thread.pc = "panicked"
    /\ input_thread.pc = "send"
    /\ \E t \in ThreadIds : compute[t].pc = "recv"

\* Every thread the configuration asks for has run to its normal end
AllDone ==
    /\ input_thread.pc = "done"
    /\ output_thread.pc = "done"
    /\ \A t \in ThreadIds : t < configuration.threads => compute[t].pc = "done"

\* C12: termination of a failure-free run.  Unless a stage fails, the reader,
\* every compute thread and the writer eventually end normally; a compute
\* thread ends only after the reader has ended and the input channel is
\* empty; the writer ends only after the scope closure and every compute
\* thread have dropped their output senders and the output channel is empty.
C12_FailureFreeRunTerminates ==
    /\ [](\A t \in ThreadIds :
             compute[t].pc = "done" => (~Alive(input_thread) /\ input_channel = <<>>))
    /\ [](output_thread.pc = "done" =>
             /\ main.pc \in {"join", "exit"}
             /\ \A t \in ThreadIds : ~Alive(compute[t])
             /\ output_channel = <<>>)
    /\ <>(SomeStageFailed \/ AllDone)

C12_Witness ==
    /\ ~SomeStageFailed
    /\ AllDone
    /\ configuration.threads = 2
    /\ configuration.buffer_size = 1
    /\ Len(file) = 3
    /\ Len(written) = 3
    /\ exit = "success"

InFlight == input_thread.pos - Len(written)

\* C14: backpressure.  Neither channel ever holds more than buffer_size
\* records, and the number of records read but not yet written never exceeds
\* 2 * buffer_size + threads + 2.
C14_Backpressure ==
    /\ Len(input_channel) <= configuration.buffer_size
    /\ Len(output_channel) <= configuration.buffer_size
    /\ InFlight <= 2 * configuration.buffer_size + configuration.threads + 2

\* the bound is met: no buffer, one compute thread, three records in flight
C14_Witness ==
    /\ configuration.buffer_size = 0
    /\ configuration.threads = 1
    /\ InFlight = 3
    /\ input_thread.pc = "send"
    /\ compute[0].pc = "send"
    /\ output_thread.pc = "write"

\* The number of places that hold the record with this id: the reader, the
\* input channel, a live compute thread, the output channel, the writer, the
\* written output
Holders(id) ==
    (IF input_thread.pc = "send" /\ file[input_thread.pos].id = id THEN 1 ELSE 0)
    + Cardinality({i \in 1 .. Len(input_channel) : input_channel[i].id = id})
    + Cardinality({t \in ThreadIds :
                      /\ Alive(compute[t])
                      /\ compute[t].item # None
                      /\ compute[t].item[1].id = id})
    + Cardinality({i \in 1 .. Len(output_channel) : output_channel[i].id = id})
    + (IF output_thread.pc = "write" /\ output_thread.item[1].id = id THEN 1 ELSE 0)
    + Cardinality({k \in 1 .. Len(written) : written[k].id = id})

\* C15: exclusive ownership.  Every record is in at most one place at a time
\* and is received by one compute thread only; a compute thread holds a record
\* exactly while it is sending it, none when it receives the next one.
C15_ExclusiveOwnership ==
    /\ \A i \in 1 .. Len(file) : Holders(file[i].id) <= 1
    /\ \A t \in ThreadIds :
          /\ compute[t].pc \in {"unspawned", "recv", "done"} => compute[t].item = None
          /\ compute[t].pc = "send" => compute[t].item # None

\* both compute threads hold a record, a third one is in the input channel
C15_Witness ==
    /\ \A t \in ThreadIds : compute[t].pc = "send"
    /\ compute[0].item[1].id # compute[1].item[1].id
    /\ Len(input_channel) = 1

\* The ids of the records that have left the reader
Downstream ==
    {input_channel[i].id : i \in 1 .. Len(input_channel)}
        \cup {compute[t].item[1].id : t \in {u \in ThreadIds : compute[u].item # None}}
        \cup {item.id : item \in SentToWriter}
        \cup {written[k].id : k \in 1 .. Len(written)}
        \cup {map_written[k].id : k \in 1 .. Len(map_written)}

\* C16: a parse error stops the reader.  When parsing the k-th record fails,
\* the reader has panicked with k - 1 records read, no record at position k or
\* later is sent or written, and the run does not end in success.
C16_ParseErrorStopsReader ==
    input_thread.parse_error > 0 =>
        /\ input_thread.pc = "panicked"
        /\ input_thread.pos = input_thread.parse_error - 1
        /\ \A id \in Downstream : id < input_thread.parse_error
        /\ exit # "success"
        /\ main.pc = "exit" => exit = "failure"

\* the second record failed to parse: the first one is written, the run failed
C16_Witness ==
    /\ input_thread.parse_error = 2
    /\ Len(file) = 3
    /\ Len(written) = 1
    /\ main.pc = "exit"
    /\ exit = "failure"

OtherStageFailed(thread) ==
    \/ main.panicked
    \/ \E other \in SpawnedThreads \ {thread} : other.pc = "panicked"

\* C17: a send fails only after a failure elsewhere.  When the reader's send
\* or a compute thread's send has returned an error, another stage or the
\* set-up had failed before.
C17_SendFailsOnlyAfterFailure ==
    /\ (input_thread.pc = "panicked" /\ input_thread.parse_error = 0) =>
           OtherStageFailed(input_thread)
    /\ \A t \in ThreadIds :
           compute[t].pc = "panicked" =>
               \/ main.panicked
               \/ input_thread.pc = "panicked"
               \/ output_thread.pc = "panicked"
               \/ \E u \in ThreadIds \ {t} : compute[u].pc = "panicked"

\* The map entries written so far belong, one by one, to the records written
\* so far
MapEntriesFollowRecords ==
    /\ Len(map_written) <= Len(written)
    /\ Len(written) <= Len(map_written) + 1
    /\ \A k \in 1 .. Len(map_written) :
          /\ map_written[k].id = written[k].id
          /\ map_written[k].hodeco_mapping =
                 compress_with_map(file[map_written[k].id].seq).hodeco_mapping

\* C18: with an output file and a map output, the writer writes each record
\* and then its (id, mapping) pair: the k-th map entry has the id of the k-th
\* written record and the mapping of that input record, and when the writer
\* ends in a run without a failure there is one map entry for each of the R
\* records of the input.
C18_MapEntriesMatchRecords ==
    (configuration.output /\ configuration.hodeco_map_output) =>
        /\ MapEntriesFollowRecords
        /\ (output_thread.pc = "done" /\ exit = "success") => Len(map_written) = Len(file)

\* C18 restricted to runs with at least one compute thread
C18_WithComputeThreads ==
    (configuration.threads >= 1 /\ configuration.output /\ configuration.hodeco_map_output) =>
        /\ MapEntriesFollowRecords
        /\ (~SomeStageFailed /\ output_thread.pc = "done") => Len(map_written) = Len(file)

\* C19: no degraded success.  When the run ends in success, every record the
\* reader has read has been written.
C19_SuccessWritesEveryRecord ==
    exit = "success" => Len(written) = input_thread.pos

\* C20: the writer and the compute threads agree on the mapping.  With an
\* output file and a map output every tuple sent to the writer carries
\* Some(mapping); without a map output every tuple carries None.
C20_MapPresenceAgrees ==
    \A item \in SentToWriter :
        /\ (configuration.output /\ configuration.hodeco_map_output) =>
               item.hodeco_mapping # None
        /\ ~configuration.hodeco_map_output => item.hodeco_mapping = None

\* the file writer has received a tuple with a mapping
C20_Witness ==
    /\ configuration.output
    /\ configuration.hodeco_map_output
    /\ output_thread.pc = "write"
    /\ output_thread.item[1].hodeco_mapping # None
    /\ Len(map_written) = 1

====
